---- MODULE Spec2Model ----
(***************************************************************************)
(* Model of lib/js/rules/valid-jsdoc.js: the rule keeps a stack `fns` of   *)
(* per-function return records, pushed by startFunction, marked by         *)
(* addReturn and popped by checkJSDoc, which validates the JSDoc comment   *)
(* of the function being left and reports diagnostics to context.report.   *)
(*                                                                         *)
(* Text is modelled as tuples of one-character strings wherever the code   *)
(* looks inside it (indexOf, toLowerCase, a regular expression test).      *)
(***************************************************************************)
EXTENDS Integers, Sequences, FiniteSets, TLC

VARIABLES
    fns,                     \* the function stack (line 31)
    reports,                 \* every context.report call so far, in order
    threw,                   \* TRUE once a handler threw (the traversal is aborted)
    requireReturn,           \* options.requireReturn !== false (line 23)
    requireParamDescription, \* options.requireParamDescription !== false (line 24)
    prefer,                  \* options.prefer || {} (line 20)
    events,                  \* the visitor events delivered so far (the traversal)
    last,                    \* the locals of the most recent checkJSDoc call
    firstRun                 \* an earlier run of the rule over the same program

vars == <<fns, reports, threw, requireReturn, requireParamDescription, prefer,
          events, last, firstRun>>

(***************************************************************************)
(* Bounds of the model.                                                    *)
(***************************************************************************)
MaxEvents == 5      \* visitor events in one traversal (Spec)
MaxDepth == 2       \* nesting depth of function definitions (Spec)
MaxTags == 3        \* tags in one comment (SpecDoc)

(***************************************************************************)
(* Text helpers.                                                           *)
(***************************************************************************)
Undefined == <<>>   \* JavaScript undefined / an absent string

\* String.prototype.indexOf for a one-character needle: 0-based, -1 if absent.
IndexOf(s, ch) ==
    IF \E i \in 1..Len(s) : s[i] = ch
    THEN (CHOOSE i \in 1..Len(s) : s[i] = ch /\ \A j \in 1..(i - 1) : s[j] # ch) - 1
    ELSE -1

LowerChar(c) ==
    CASE c = "A" -> "a" [] c = "B" -> "b" [] c = "C" -> "c" [] c = "D" -> "d"
      [] c = "E" -> "e" [] c = "F" -> "f" [] c = "G" -> "g" [] c = "I" -> "i"
      [] c = "N" -> "n" [] c = "O" -> "o" [] c = "R" -> "r" [] c = "S" -> "s"
      [] c = "T" -> "t" [] c = "U" -> "u" [] c = "X" -> "x"
      [] OTHER -> c

\* String.prototype.toLowerCase
ToLowerCase(s) == [i \in 1..Len(s) |-> LowerChar(s[i])]

\* needle occurs in s as a contiguous substring
Contains(s, needle) ==
    \E i \in 0..(Len(s) - Len(needle)) :
        \A j \in 1..Len(needle) : s[i + j] = needle[j]

\* mutant: the regular expression without its i flag
TestBracesCaseSensitive(message) ==
    Contains(message, <<"b", "r", "a", "c", "e", "s">>)

\* /braces/i.test(message)  (line 93)
TestBraces(message) ==
    Contains(ToLowerCase(message), <<"b", "r", "a", "c", "e", "s">>)

(***************************************************************************)
(* Diagnostics: one record per context.report call.  line and column are   *)
(* <<>> when the call passes no location override, <<n>> otherwise and     *)
(* NaN when the computed number is NaN.                                    *)
(***************************************************************************)
NaN == <<0, 0>>     \* distinct from every <<n>>

Diag(msg, line, column, title, name, jsdocName) ==
    [msg |-> msg, line |-> line, column |-> column, title |-> title,
     name |-> name, jsdocName |-> jsdocName]

NodeDiag(msg) == Diag(msg, <<>>, <<>>, "", Undefined, Undefined)

(***************************************************************************)
(* JSDoc types as doctrine returns them: null, a NameExpression with a     *)
(* name, or another expression kind (which has no name property).          *)
(***************************************************************************)
Null == [type |-> "null", name |-> Undefined]
NameExpression(n) == [type |-> "NameExpression", name |-> n]
UnionType == [type |-> "UnionType", name |-> Undefined]

IsNull(t) == t.type = "null"

Void == <<"v", "o", "i", "d">>
UndefinedName == <<"u", "n", "d", "e", "f", "i", "n", "e", "d">>

(***************************************************************************)
(* The parameter registry `params` (line 67): an object without prototype, *)
(* modelled as its entries in insertion order, which is the order          *)
(* Object.keys returns for identifier keys.                                *)
(***************************************************************************)
HasKey(params, k) == \E i \in 1..Len(params) : params[i].key = k

ObjectKeys(params) == [i \in 1..Len(params) |-> params[i].key]

\* mutant: a repeated name replaces the entry recorded for it
RecordParamOverwrites(params, tag) ==
    IF HasKey(params, tag.name)
    THEN [i \in 1..Len(params) |->
            IF params[i].key = tag.name THEN [key |-> tag.name, tag |-> tag]
            ELSE params[i]]
    ELSE IF IndexOf(tag.name, ".") = -1
         THEN Append(params, [key |-> tag.name, tag |-> tag])
         ELSE params

\* mutant: a dotted name is recorded like any other name
RecordParamAlsoDotted(params, tag) ==
    IF HasKey(params, tag.name)
    THEN params
    ELSE Append(params, [key |-> tag.name, tag |-> tag])

\* lines 132-142: what the param case leaves in the registry
RecordParam(params, tag) ==
    IF HasKey(params, tag.name)
    THEN params
    ELSE IF IndexOf(tag.name, ".") = -1
         THEN Append(params, [key |-> tag.name, tag |-> tag])
         ELSE params

\* lines 132-139: the duplicate report of the param case
DuplicateReport(params, tag, startLine) ==
    IF HasKey(params, tag.name)
    THEN <<Diag("Duplicate JSDoc parameter \"{{name}}\".",
                <<startLine + tag.lineNumber>>, <<>>, "", tag.name, Undefined)>>
    ELSE <<>>

\* lines 113-143: case 'param'
ParamCase(st, tag, startLine) ==
    LET noType == IF IsNull(tag.type)
                  THEN <<Diag("Missing JSDoc parameter type for \"{{name}}\".",
                              <<startLine + tag.lineNumber>>, <<>>, "",
                              tag.name, Undefined)>>
                  ELSE <<>>
        noDesc == IF tag.description = "" /\ requireParamDescription
                  THEN <<Diag("Missing JSDoc parameter description for \"{{name}}\".",
                              <<startLine + tag.lineNumber>>, <<>>, "",
                              tag.name, Undefined)>>
                  ELSE <<>>
    IN [st EXCEPT
          !.reports = @ \o noType \o noDesc
                        \o DuplicateReport(st.params, tag, startLine),
          !.params = RecordParam(@, tag)]

\* lines 161-175: the else branch of the return case; reading tag.type.name
\* of a null type at line 169 throws a TypeError
ReturnTypeChecks(st, tag, startLine) ==
    IF IsNull(tag.type)
    THEN [st EXCEPT
            !.reports = Append(@, Diag("Missing JSDoc return type.",
                                       <<startLine + tag.lineNumber>>, <<>>,
                                       "", Undefined, Undefined)),
            !.threw = TRUE]
    ELSE IF tag.type.name # Void /\ tag.description = ""
         THEN [st EXCEPT
                 !.reports = Append(@, Diag("Missing JSDoc return description.",
                                            <<startLine + tag.lineNumber>>, <<>>,
                                            "", Undefined, Undefined))]
         ELSE st

\* mutant: the unexpected-tag branch does not look at returnPresent
ReturnCaseIgnoresReturnPresent(st, tag, startLine, functionData) ==
    LET st1 == [st EXCEPT !.hasReturns = TRUE]
    IN IF ~requireReturn
       THEN IF IsNull(tag.type)
            THEN [st1 EXCEPT !.threw = TRUE]
            ELSE IF tag.type.name # Void /\ tag.type.name # UndefinedName
                 THEN [st1 EXCEPT
                         !.reports = Append(@,
                             Diag("Unexpected @{{title}} tag; function has no return statement.",
                                  <<startLine + tag.lineNumber>>, <<>>,
                                  tag.title, Undefined, Undefined))]
                 ELSE ReturnTypeChecks(st1, tag, startLine)
       ELSE ReturnTypeChecks(st1, tag, startLine)

\* lines 145-178: case 'return' / 'returns'; && evaluates left to right, so
\* tag.type.name is read at line 151 only when the first two operands hold
ReturnCase(st, tag, startLine, functionData) ==
    LET st1 == [st EXCEPT !.hasReturns = TRUE]
    IN IF ~requireReturn /\ ~functionData.returnPresent
       THEN IF IsNull(tag.type)
            THEN [st1 EXCEPT !.threw = TRUE]
            ELSE IF tag.type.name # Void /\ tag.type.name # UndefinedName
                 THEN [st1 EXCEPT
                         !.reports = Append(@,
                             Diag("Unexpected @{{title}} tag; function has no return statement.",
                                  <<startLine + tag.lineNumber>>, <<>>,
                                  tag.title, Undefined, Undefined))]
                 ELSE ReturnTypeChecks(st1, tag, startLine)
       ELSE ReturnTypeChecks(st1, tag, startLine)

\* lines 111-185: the switch on tag.title
TitleSwitch(st, tag, startLine, functionData) ==
    CASE tag.title = "param" -> ParamCase(st, tag, startLine)
      [] tag.title \in {"return", "returns"} ->
            ReturnCase(st, tag, startLine, functionData)
      [] tag.title = "constructor" -> [st EXCEPT !.hasConstructor = TRUE]
      [] OTHER -> st

\* lines 187-195: check tag preferences
PreferCheck(st, tag, startLine) ==
    IF tag.title \in DOMAIN prefer
    THEN [st EXCEPT
            !.reports = Append(@, Diag("Use @{{name}} instead.",
                                       <<startLine + tag.lineNumber>>, <<>>,
                                       prefer[tag.title], Undefined, Undefined))]
    ELSE st

(***************************************************************************)
(* The type-name map of lines 199-209 is an object literal, so a lookup    *)
(* also finds what Object.prototype provides under an all-lower-case key.  *)
(***************************************************************************)
ObjectFunction == <<"function Object() { [native code] }">>
ObjectPrototype == <<"[object Object]">>

MapLookup(key) ==
    CASE key = <<"s", "t", "r", "i", "n", "g">> -> <<"s", "t", "r", "i", "n", "g">>
      [] key = <<"b", "o", "o", "l", "e", "a", "n">> -> <<"b", "o", "o", "l", "e", "a", "n">>
      [] key = <<"n", "u", "m", "b", "e", "r">> -> <<"n", "u", "m", "b", "e", "r">>
      [] key = <<"i", "n", "t">> -> <<"n", "u", "m", "b", "e", "r">>
      [] key = <<"a", "r", "r", "a", "y">> -> <<"A", "r", "r", "a", "y">>
      [] key = <<"f", "u", "n", "c", "t", "i", "o", "n">> -> <<"F", "u", "n", "c", "t", "i", "o", "n">>
      [] key = <<"d", "a", "t", "e">> -> <<"D", "a", "t", "e">>
      [] key = <<"o", "b", "j", "e", "c", "t">> -> <<"O", "b", "j", "e", "c", "t">>
      [] key = <<"r", "e", "g", "e", "x", "p">> -> <<"R", "e", "g", "E", "x", "p">>
      [] key = <<"c", "o", "n", "s", "t", "r", "u", "c", "t", "o", "r">> -> ObjectFunction
      [] key = <<"_", "_", "p", "r", "o", "t", "o", "_", "_">> -> ObjectPrototype
      [] OTHER -> Undefined

\* lines 197-231: preferred type names
TypeNameCheck(st, tag, startLine, startColumn) ==
    IF ~IsNull(tag.type) /\ tag.type.type = "NameExpression"
    THEN LET perferName == MapLookup(ToLowerCase(tag.type.name))
         IN IF perferName # Undefined /\ tag.type.name # perferName
            THEN [st EXCEPT
                    !.reports = Append(@,
                        Diag("Expected JSDoc type name \"{{name}}\" but found \"{{jsdocName}}\".",
                             <<startLine + tag.lineNumber>>,
                             <<startColumn + tag.typeIndex>>,
                             "", perferName, tag.type.name))]
            ELSE st
    ELSE st

\* mutant: the preference check runs before the switch on the title
TagCallbackPreferFirst(st, tag, startLine, startColumn, functionData) ==
    LET s1 == TitleSwitch(PreferCheck(st, tag, startLine), tag, startLine,
                          functionData)
    IN IF s1.threw
       THEN s1
       ELSE TypeNameCheck(s1, tag, startLine, startColumn)

\* lines 109-233: the callback of jsdoc.tags.forEach for one tag; a throw in
\* the switch leaves the callback at once
TagCallback(st, tag, startLine, startColumn, functionData) ==
    LET s1 == TitleSwitch(st, tag, startLine, functionData)
    IN IF s1.threw
       THEN s1
       ELSE TypeNameCheck(PreferCheck(s1, tag, startLine), tag, startLine, startColumn)

\* jsdoc.tags.forEach: tags i..Len(tags) in order, ended by a throw
RECURSIVE TagsForEach(_, _, _, _, _, _)
TagsForEach(st, tags, i, startLine, startColumn, functionData) ==
    IF i > Len(tags) \/ st.threw
    THEN st
    ELSE TagsForEach(TagCallback(st, tags[i], startLine, startColumn, functionData),
                     tags, i + 1, startLine, startColumn, functionData)

\* mutant: a constructor tag no longer exempts the function
MissingReturnIgnoresConstructor(hasReturns, hasConstructor, functionData) ==
    IF ~hasReturns /\ (requireReturn \/ functionData.returnPresent)
    THEN <<NodeDiag("Missing JSDoc @return for function.")>>
    ELSE <<>>

\* lines 235-243: check for functions missing @returns
MissingReturnCheck(hasReturns, hasConstructor, functionData) ==
    IF ~hasReturns /\ ~hasConstructor
    THEN IF requireReturn \/ functionData.returnPresent
         THEN <<NodeDiag("Missing JSDoc @return for function.")>>
         ELSE <<>>
    ELSE <<>>

\* mutant: the two checks are independent statements, not if / else if
CrossCheckBothChecks(params, jsdocParams, name, i) ==
    (IF i <= Len(jsdocParams) /\ name # jsdocParams[i]
     THEN <<Diag("Expected JSDoc for \"{{name}}\" but found \"{{jsdocName}}\".",
                 NaN, <<>>, "", name, jsdocParams[i])>>
     ELSE <<>>)
    \o (IF ~HasKey(params, name)
        THEN <<Diag("Missing JSDoc for parameter \"{{name}}\".",
                    <<>>, <<>>, "", name, Undefined)>>
        ELSE <<>>)

\* mutant: parameters are looked up by name only, positions are not compared
CrossCheckByNameOnly(params, jsdocParams, name, i) ==
    IF ~HasKey(params, name)
    THEN <<Diag("Missing JSDoc for parameter \"{{name}}\".",
                <<>>, <<>>, "", name, Undefined)>>
    ELSE <<>>

\* lines 249-268: the callback of node.params.forEach for the real parameter
\* `name` at 1-based position i; jsdocParams[i].lineNumber is read off a
\* string, so the reported line is startLine + undefined = NaN
CrossCheckParam(params, jsdocParams, name, i) ==
    IF i <= Len(jsdocParams) /\ name # jsdocParams[i]
    THEN <<Diag("Expected JSDoc for \"{{name}}\" but found \"{{jsdocName}}\".",
                NaN, <<>>, "", name, jsdocParams[i])>>
    ELSE IF ~HasKey(params, name)
         THEN <<Diag("Missing JSDoc for parameter \"{{name}}\".",
                     <<>>, <<>>, "", name, Undefined)>>
         ELSE <<>>

\* mutant: the loop also visits the documented names behind the last real
\* parameter
RECURSIVE CrossCheckAlsoBeyond(_, _, _)
CrossCheckAlsoBeyond(params, nodeParams, i) ==
    IF i > Len(nodeParams) /\ i > Len(params)
    THEN <<>>
    ELSE (IF i <= Len(nodeParams)
          THEN CrossCheckParam(params, ObjectKeys(params), nodeParams[i], i)
          ELSE <<Diag("Expected JSDoc for \"{{name}}\" but found \"{{jsdocName}}\".",
                      NaN, <<>>, "", Undefined, ObjectKeys(params)[i])>>)
           \o CrossCheckAlsoBeyond(params, nodeParams, i + 1)

\* lines 245-269: check the parameters
RECURSIVE CrossCheck(_, _, _)
CrossCheck(params, nodeParams, i) ==
    IF i > Len(nodeParams)
    THEN <<>>
    ELSE CrossCheckParam(params, ObjectKeys(params), nodeParams[i], i)
           \o CrossCheck(params, nodeParams, i + 1)

(***************************************************************************)
(* What context.getJSDocComment and doctrine.parse hand to checkJSDoc:     *)
(* no comment, a comment doctrine rejects with a message, or a comment     *)
(* with its tags and its start location.                                   *)
(***************************************************************************)
NoComment ==
    [kind |-> "none", message |-> Undefined, tags |-> <<>>, line |-> 0, column |-> 0]

Rejected(message) ==
    [kind |-> "throws", message |-> message, tags |-> <<>>, line |-> 2, column |-> 0]

Parsed(tags) ==
    [kind |-> "tags", message |-> Undefined, tags |-> tags, line |-> 2, column |-> 0]

\* mutant: the guard is gone, a function without comment is checked as well
JsdocNodeAssumed(c) == TRUE

\* line 74: if (jsdocNode)
JsdocNodePresent(c) == c.kind # "none"

\* lines 93-104: the report of the catch block
ParseFailureReport(message) ==
    IF TestBraces(message)
    THEN <<NodeDiag("JSDoc type missing brace.")>>
    ELSE <<NodeDiag("JSDoc syntax error.")>>

NoLocals ==
    [reports |-> <<>>, params |-> <<>>, hasReturns |-> FALSE,
     hasConstructor |-> FALSE, threw |-> FALSE]

\* lines 109-269: the checks of a comment doctrine parsed
CheckParsed(functionData, c, nodeParams) ==
    LET startLine == c.line
        startColumn == c.column + 1
        st == TagsForEach(NoLocals, c.tags, 1, startLine, startColumn, functionData)
    IN IF st.threw
       THEN [st EXCEPT !.threw = TRUE] @@ [outcome |-> "threw"]
       ELSE [st EXCEPT
               !.reports = @ \o MissingReturnCheck(st.hasReturns, st.hasConstructor,
                                                   functionData)
                             \o CrossCheck(st.params, nodeParams, 1)]
            @@ [outcome |-> "done"]

\* lines 62-273: checkJSDoc after the pop, as a function of its inputs
CheckComment(functionData, c, nodeParams) ==
    IF ~JsdocNodePresent(c)
    THEN NoLocals @@ [outcome |-> "nocomment"]
    ELSE IF c.kind = "throws"
         THEN [NoLocals EXCEPT !.reports = ParseFailureReport(c.message)]
              @@ [outcome |-> "parsefail"]
         ELSE CheckParsed(functionData, c, nodeParams)

(***************************************************************************)
(* The stack operations.                                                   *)
(***************************************************************************)
\* line 39: fns.push({returnPresent: false})
Push(stack) == Append(stack, [returnPresent |-> FALSE])

\* mutant: the flag is set on every open function, not on the innermost one
MarkReturnEveryOpen(stack, hasArgument) ==
    IF hasArgument
    THEN [i \in 1..Len(stack) |-> [returnPresent |-> TRUE]]
    ELSE stack

\* mutant: a return outside every function makes a record of its own
MarkReturnMakesRecord(stack, hasArgument) ==
    IF hasArgument
    THEN IF Len(stack) > 0
         THEN [stack EXCEPT ![Len(stack)].returnPresent = TRUE]
         ELSE <<[returnPresent |-> TRUE]>>
    ELSE stack

\* lines 49-53: the body of addReturn
MarkReturn(stack, hasArgument) ==
    IF Len(stack) > 0 /\ hasArgument
    THEN [stack EXCEPT ![Len(stack)].returnPresent = TRUE]
    ELSE stack

\* mutant: the top record is read and left on the stack
PopKeepsTop(stack) == stack

\* line 64: fns.pop()
Pop(stack) == SubSeq(stack, 1, Len(stack) - 1)

(***************************************************************************)
(* The traversal: functions entered and not yet left.                      *)
(***************************************************************************)
Count(evs, kind) == Cardinality({i \in 1..Len(evs) : evs[i].e = kind})

Open(evs) == Count(evs, "enter") - Count(evs, "exit")

NoCall ==
    [comment |-> NoComment, nodeParams |-> <<>>,
     functionData |-> [returnPresent |-> FALSE], from |-> 0]
    @@ NoLocals @@ [outcome |-> "nocall"]

Prefers ==
    {[t \in {} |-> ""],
     [t \in {"returns", "private"} |-> IF t = "returns" THEN "return" ELSE "access"]}

\* no earlier run: the rule is on its first run
NoRun == [done |-> FALSE, script |-> <<>>, reports |-> <<>>, fns |-> <<>>]

Init ==
    /\ firstRun = NoRun
    /\ fns = <<>>
    /\ reports = <<>>
    /\ threw = FALSE
    /\ requireReturn \in BOOLEAN
    /\ requireParamDescription \in BOOLEAN
    /\ prefer \in Prefers
    /\ events = <<>>
    /\ last = NoCall

config == <<requireReturn, requireParamDescription, prefer>>

\* lines 38-40: 'FunctionExpression' / 'FunctionDeclaration'
startFunction ==
    /\ fns' = Push(fns)
    /\ events' = Append(events, [e |-> "enter", arg |-> FALSE])
    /\ UNCHANGED <<reports, threw, last, config>>

\* lines 48-54: 'ReturnStatement'; hasArgument is node.argument !== null
addReturn(hasArgument) ==
    /\ fns' = MarkReturn(fns, hasArgument)
    /\ events' = Append(events, [e |-> "return", arg |-> hasArgument])
    /\ UNCHANGED <<reports, threw, last, config>>

\* the inputs and locals of one checkJSDoc call, as they stand when it ends
Locals(functionData, c, nodeParams, from) ==
    [comment |-> c, nodeParams |-> nodeParams, functionData |-> functionData,
     from |-> from]
    @@ CheckComment(functionData, c, nodeParams)

\* lines 62-273: 'FunctionExpression:exit' / 'FunctionDeclaration:exit'
checkJSDoc(c, nodeParams) ==
    /\ last' = Locals(fns[Len(fns)], c, nodeParams, Len(reports))
    /\ fns' = Pop(fns)
    /\ reports' = reports \o last'.reports
    /\ threw' = last'.threw
    /\ events' = Append(events, [e |-> "exit", arg |-> FALSE])
    /\ UNCHANGED config

(***************************************************************************)
(* Inputs.  A tag as doctrine returns it with lineNumbers: true; the tags  *)
(* of a comment stand on consecutive lines after the opening line, and     *)
(* typeIndex is where the line of the tag shows its type name.             *)
(***************************************************************************)
A == <<"a">>
B == <<"b">>
C == <<"c">>
X == <<"x">>
OptionsX == <<"o", ".", "x">>

Number == <<"n", "u", "m", "b", "e", "r">>
CapString == <<"S", "t", "r", "i", "n", "g">>
ConstructorName == <<"c", "o", "n", "s", "t", "r", "u", "c", "t", "o", "r">>

Tag(title, name, type, description) ==
    [title |-> title, name |-> name, type |-> type, description |-> description]

TypeIndexOf(title) ==
    CASE title = "param" -> 11
      [] title = "return" -> 12
      [] title = "returns" -> 13
      [] OTHER -> 0

WithLines(shapes) ==
    [i \in 1..Len(shapes) |->
        shapes[i] @@ [lineNumber |-> i, typeIndex |-> TypeIndexOf(shapes[i].title)]]

SeqsUpTo(S, n) == UNION {[1..k -> S] : k \in 0..n}

Param(name) == Tag("param", name, NameExpression(Number), "d")

ParamPool == {Param(A), Param(B), Param(C), Param(X), Param(OptionsX)}

ReturnPool ==
    {Tag("return", Undefined, Null, "d"),
     Tag("returns", Undefined, NameExpression(Void), ""),
     Tag("returns", Undefined, NameExpression(Number), "d"),
     Tag("return", Undefined, UnionType, ""),
     Tag("returns", Undefined, NameExpression(UndefinedName), "d"),
     Tag("constructor", Undefined, Null, ""),
     Param(A)}

\* tags with a missing type or description, a type name the map corrects, a
\* title without a case of its own
AttributePool ==
    {Tag("param", A, Null, ""),
     Tag("param", B, NameExpression(CapString), "d"),
     Tag("returns", Undefined, NameExpression(<<"i", "n", "t">>), "d"),
     Tag("returns", Undefined, Null, "d"),
     Tag("param", X, NameExpression(ConstructorName), "d"),
     Tag("private", Undefined, Null, "")}

\* real parameter lists: distinct identifiers
ParamLists == {<<>>, <<A>>, <<B>>, <<A, B>>, <<B, A>>, <<A, B, C>>}

BracesMessage ==
    <<"B", "r", "a", "c", "e", "s", " ", "a", "r", "e", " ", "n", "o", "t", " ",
      "b", "a", "l", "a", "n", "c", "e", "d">>
TitleMessage ==
    <<"M", "i", "s", "s", "i", "n", "g", " ", "o", "r", " ", "i", "n", "v", "a",
      "l", "i", "d", " ", "t", "i", "t", "l", "e">>

\* the comments and parameter lists of the functions of a traversal (Spec)
TraversalComments ==
    {NoComment, Rejected(BracesMessage), Rejected(TitleMessage),
     Parsed(<<>>),
     Parsed(WithLines(<<Tag("return", Undefined, Null, "d")>>)),
     Parsed(WithLines(<<Tag("returns", Undefined, NameExpression(Number), "d")>>)),
     Parsed(WithLines(<<Tag("param", B, NameExpression(CapString), ""),
                        Tag("returns", Undefined, NameExpression(<<"i", "n", "t">>), "d")>>))}

TraversalParams == {<<>>, <<A>>}

\* the comment and parameter list of one documented function (SpecDoc)
DocInputs ==
    ({Parsed(WithLines(t)) : t \in SeqsUpTo(ParamPool, MaxTags)} \X ParamLists)
    \cup ({Parsed(WithLines(t)) : t \in SeqsUpTo(ReturnPool, MaxTags)}
            \X {<<>>, <<A>>})
    \cup ({Parsed(WithLines(t)) : t \in SeqsUpTo(AttributePool, MaxTags)}
            \X {<<A>>, <<A, B>>})

(***************************************************************************)
(* Spec: a traversal delivers the visitor events of nested functions.      *)
(***************************************************************************)
Enter ==
    /\ ~threw
    /\ Len(events) < MaxEvents
    /\ Open(events) < MaxDepth
    /\ startFunction
    /\ UNCHANGED firstRun

Return ==
    /\ ~threw
    /\ Len(events) < MaxEvents
    /\ \E hasArgument \in BOOLEAN : addReturn(hasArgument)
    /\ UNCHANGED firstRun

Exit ==
    /\ ~threw
    /\ Len(events) < MaxEvents
    /\ Open(events) > 0
    /\ \E c \in TraversalComments, nodeParams \in TraversalParams :
          checkJSDoc(c, nodeParams)
    /\ UNCHANGED firstRun

Next == Enter \/ Return \/ Exit

Spec == Init /\ [][Next]_vars

(***************************************************************************)
(* SpecDoc: the traversal of one documented function.                      *)
(***************************************************************************)
EnterDoc ==
    /\ events = <<>>
    /\ startFunction
    /\ UNCHANGED firstRun

ReturnDoc ==
    /\ Open(events) = 1
    /\ Count(events, "return") = 0
    /\ \E hasArgument \in BOOLEAN : addReturn(hasArgument)
    /\ UNCHANGED firstRun

ExitDoc ==
    /\ Open(events) = 1
    /\ \E in \in DocInputs : checkJSDoc(in[1], in[2])
    /\ UNCHANGED firstRun

NextDoc == EnterDoc \/ ReturnDoc \/ ExitDoc

SpecDoc == Init /\ [][NextDoc]_vars

(***************************************************************************)
(* SpecTwice: the rule runs over a program, and then a second time over    *)
(* the same program with the same options.  The first run writes down the  *)
(* events it was given; the second run is a new call of the rule function  *)
(* (line 17), so it starts with a new stack (line 31) and a new list of    *)
(* diagnostics, and it is given the written events again.                  *)
(***************************************************************************)
TwiceComments ==
    {NoComment,
     Parsed(WithLines(<<Tag("return", Undefined, Null, "d")>>)),
     Parsed(WithLines(<<Param(B)>>))}

Scripted(e, arg, c, nodeParams) ==
    [e |-> e, arg |-> arg, c |-> c, nodeParams |-> nodeParams]

Write(ev) == firstRun' = [firstRun EXCEPT !.script = Append(@, ev)]

EnterFirst ==
    /\ ~firstRun.done
    /\ ~threw
    /\ Len(events) < MaxEvents
    /\ Open(events) < MaxDepth
    /\ startFunction
    /\ Write(Scripted("enter", FALSE, NoComment, <<>>))

ReturnFirst ==
    /\ ~firstRun.done
    /\ ~threw
    /\ Len(events) < MaxEvents
    /\ \E hasArgument \in BOOLEAN :
          /\ addReturn(hasArgument)
          /\ Write(Scripted("return", hasArgument, NoComment, <<>>))

ExitFirst ==
    /\ ~firstRun.done
    /\ ~threw
    /\ Len(events) < MaxEvents
    /\ Open(events) > 0
    /\ \E c \in TwiceComments :
          /\ checkJSDoc(c, <<A>>)
          /\ Write(Scripted("exit", FALSE, c, <<A>>))

\* the first run is over (every function left, or a handler threw); the rule
\* function is called again: line 31 makes a new stack
RunAgain ==
    /\ ~firstRun.done
    /\ events # <<>>
    /\ threw \/ Open(events) = 0
    /\ firstRun' = [done |-> TRUE, script |-> firstRun.script, reports |-> reports,
                 fns |-> fns]
    /\ fns' = <<>>
    /\ reports' = <<>>
    /\ threw' = FALSE
    /\ events' = <<>>
    /\ last' = NoCall
    /\ UNCHANGED config

Scheduled(e) ==
    /\ firstRun.done
    /\ ~threw
    /\ Len(events) < Len(firstRun.script)
    /\ firstRun.script[Len(events) + 1].e = e

EnterAgain ==
    /\ Scheduled("enter")
    /\ startFunction
    /\ UNCHANGED firstRun

ReturnAgain ==
    /\ Scheduled("return")
    /\ addReturn(firstRun.script[Len(events) + 1].arg)
    /\ UNCHANGED firstRun

ExitAgain ==
    /\ Scheduled("exit")
    /\ checkJSDoc(firstRun.script[Len(events) + 1].c,
                  firstRun.script[Len(events) + 1].nodeParams)
    /\ UNCHANGED firstRun

NextTwice ==
    \/ EnterFirst \/ ReturnFirst \/ ExitFirst
    \/ RunAgain
    \/ EnterAgain \/ ReturnAgain \/ ExitAgain

SpecTwice == Init /\ [][NextTwice]_vars

(***************************************************************************)
(* What the events say, independently of the stack.                        *)
(***************************************************************************)
Prefix(evs, n) == SubSeq(evs, 1, n)

LastExit(evs) == CHOOSE i \in 1..Len(evs) :
    evs[i].e = "exit" /\ \A j \in (i + 1)..Len(evs) : evs[j].e # "exit"

\* the enter event of the function that the exit event i leaves
EnterOf(evs, i) == CHOOSE j \in 1..(i - 1) :
    /\ evs[j].e = "enter"
    /\ Open(Prefix(evs, j - 1)) = Open(Prefix(evs, i))
    /\ \A k \in (j + 1)..(i - 1) : Open(Prefix(evs, k)) >= Open(Prefix(evs, j))

\* a return with an argument between the enter and the exit i of a function,
\* delivered while that function was the innermost open one
DirectValueReturn(evs, i) ==
    \E k \in (EnterOf(evs, i) + 1)..(i - 1) :
        /\ evs[k].e = "return"
        /\ evs[k].arg
        /\ Open(Prefix(evs, k)) = Open(Prefix(evs, EnterOf(evs, i)))

(***************************************************************************)
(* C1: after every event of a correctly nested traversal the stack depth   *)
(* is the number of functions entered and not yet left: every enter pushes *)
(* one record, every exit pops one whatever the comment is, and the stack  *)
(* is empty when every function has been left.                             *)
(***************************************************************************)
C1_DepthIsOpenFunctions ==
    /\ Len(fns) = Open(events)
    /\ (Open(events) = 0 => fns = <<>>)

C1_Witness ==
    /\ Count(events, "exit") = 2
    /\ Open(events) = 0
    /\ last.outcome = "parsefail"

(***************************************************************************)
(* C2: the record an exit check consumes has returnPresent exactly when a  *)
(* return with an argument was delivered between the enter and the exit of *)
(* that function while it was the innermost open function.                 *)
(***************************************************************************)
C2_ReturnPresentIsDirectValueReturn ==
    last.outcome # "nocall" =>
        (last.functionData.returnPresent
            <=> DirectValueReturn(events, LastExit(events)))

\* a value return inside a nested function and none in the outer body:
\* the outer record is consumed with the flag unset
C2_Witness ==
    /\ Len(events) = 5
    /\ events[1].e = "enter" /\ events[2].e = "enter"
    /\ events[3].e = "return" /\ events[3].arg
    /\ events[4].e = "exit" /\ events[5].e = "exit"
    /\ ~last.functionData.returnPresent

(***************************************************************************)
(* Reading the most recent exit check.                                     *)
(***************************************************************************)
CommentParsed == last.outcome \in {"done", "threw"}

IsReturnTag(t) == t.title \in {"return", "returns"}

\* the line a diagnostic about tag t of the last comment is reported at
LineOf(t) == <<last.comment.line + t.lineNumber>>

CountMsg(rs, m) == Cardinality({i \in 1..Len(rs) : rs[i].msg = m})

CountAt(rs, m, line) ==
    Cardinality({i \in 1..Len(rs) : rs[i].msg = m /\ rs[i].line = line})

(***************************************************************************)
(* C3: for a comment that parses, "Missing JSDoc @return for function." is *)
(* reported exactly once if the comment has no return, returns or          *)
(* constructor tag and requireReturn is set or the body returned a value,  *)
(* and is not reported otherwise.                                          *)
(***************************************************************************)
C3_MissingReturnIff ==
    CommentParsed =>
        CountMsg(last.reports, "Missing JSDoc @return for function.")
          = IF /\ \A i \in 1..Len(last.comment.tags) :
                     ~IsReturnTag(last.comment.tags[i])
                     /\ last.comment.tags[i].title # "constructor"
               /\ (requireReturn \/ last.functionData.returnPresent)
            THEN 1
            ELSE 0

\* requireReturn, a body without a return, param tags only: reported
C3_Witness ==
    /\ last.outcome = "done"
    /\ requireReturn
    /\ ~last.functionData.returnPresent
    /\ Len(last.comment.tags) = 2
    /\ CountMsg(last.reports, "Missing JSDoc @return for function.") = 1

(***************************************************************************)
(* C4: with requireReturn off and no value return in the function's own    *)
(* body, every return or returns tag whose type is neither void nor        *)
(* undefined gets an "Unexpected @<title> tag" diagnostic, and neither the *)
(* missing-return-type nor the missing-return-description diagnostic.      *)
(***************************************************************************)
C4_UnexpectedReturnTag ==
    (CommentParsed /\ ~requireReturn /\ ~last.functionData.returnPresent) =>
        \A i \in 1..Len(last.comment.tags) :
            LET t == last.comment.tags[i]
            IN (IsReturnTag(t) /\ t.type.name # Void /\ t.type.name # UndefinedName) =>
                 /\ \E k \in 1..Len(last.reports) :
                       /\ last.reports[k].msg =
                            "Unexpected @{{title}} tag; function has no return statement."
                       /\ last.reports[k].title = t.title
                       /\ last.reports[k].line = LineOf(t)
                 /\ CountAt(last.reports, "Missing JSDoc return type.", LineOf(t)) = 0
                 /\ CountAt(last.reports, "Missing JSDoc return description.", LineOf(t)) = 0

(***************************************************************************)
(* C7: a return or returns tag without a type makes the exit check report  *)
(* "Missing JSDoc return type." and then complete normally, under either   *)
(* value of requireReturn and of returnPresent.                            *)
(***************************************************************************)
C7_TypelessReturnCompletes ==
    CommentParsed =>
        \A i \in 1..Len(last.comment.tags) :
            LET t == last.comment.tags[i]
            IN (IsReturnTag(t) /\ IsNull(t.type)) =>
                 /\ ~last.threw
                 /\ ~threw
                 /\ CountAt(last.reports, "Missing JSDoc return type.", LineOf(t)) = 1

(***************************************************************************)
(* What the tags of a comment document, read off the tags alone.           *)
(***************************************************************************)
IsParamTag(t) == t.title = "param"

Dotted(name) == \E i \in 1..Len(name) : name[i] = "."

HasTypelessReturn(tags) ==
    \E i \in 1..Len(tags) : IsReturnTag(tags[i]) /\ IsNull(tags[i].type)

\* the tags the loop reaches: all of them, or those up to the first return
\* tag without a type, where the callback throws
Reached(tags) ==
    IF HasTypelessReturn(tags)
    THEN SubSeq(tags, 1,
                CHOOSE i \in 1..Len(tags) :
                    /\ IsReturnTag(tags[i]) /\ IsNull(tags[i].type)
                    /\ \A j \in 1..(i - 1) : ~(IsReturnTag(tags[j]) /\ IsNull(tags[j].type)))
    ELSE tags

\* the earlier param tags of the same name
Earlier(tags, j) ==
    {i \in 1..(j - 1) : IsParamTag(tags[i]) /\ tags[i].name = tags[j].name}

RECURSIVE Ascending(_)
Ascending(S) ==
    IF S = {} THEN <<>>
    ELSE LET m == CHOOSE x \in S : \A y \in S : x <= y
         IN <<m>> \o Ascending(S \ {m})

\* the top-level names with a param tag, in the order of their first tags
DocumentedNames(tags) ==
    LET first == {j \in 1..Len(tags) :
                    IsParamTag(tags[j]) /\ ~Dotted(tags[j].name) /\ Earlier(tags, j) = {}}
        order == Ascending(first)
    IN [k \in 1..Len(order) |-> tags[order[k]].name]

InSeq(x, sq) == \E i \in 1..Len(sq) : sq[i] = x

CountNamed(rs, m, name) ==
    Cardinality({i \in 1..Len(rs) : rs[i].msg = m /\ rs[i].name = name})

MissingParamMsg == "Missing JSDoc for parameter \"{{name}}\"."
ExpectedParamMsg == "Expected JSDoc for \"{{name}}\" but found \"{{jsdocName}}\"."
DuplicateParamMsg == "Duplicate JSDoc parameter \"{{name}}\"."

\* a different documented name stands at position i of the real parameters
Mismatch(doc, nodeParams, i) == i <= Len(doc) /\ doc[i] # nodeParams[i]

(***************************************************************************)
(* C5 as stated: in an exit check that runs to its end, every real         *)
(* parameter that no param tag names gets a "Missing JSDoc for parameter"  *)
(* diagnostic, also when a different documented name stands at its         *)
(* position.                                                               *)
(***************************************************************************)
C5_MissingForEveryUndocumented ==
    last.outcome = "done" =>
        \A i \in 1..Len(last.nodeParams) :
            (\A k \in 1..Len(last.comment.tags) :
                IsParamTag(last.comment.tags[k])
                    => last.comment.tags[k].name # last.nodeParams[i])
            => CountNamed(last.reports, MissingParamMsg, last.nodeParams[i]) = 1

(***************************************************************************)
(* C5 as amended: the two checks are alternatives.  A real parameter at a  *)
(* position where a different documented name stands gets the "Expected    *)
(* JSDoc for" diagnostic and no "Missing JSDoc for parameter" one; any     *)
(* other real parameter gets exactly one "Missing JSDoc for parameter"     *)
(* diagnostic if no param tag names it and none if one does.  A comment    *)
(* with a return tag without type gets no cross-check diagnostic at all,   *)
(* the exit check having thrown before.                                    *)
(***************************************************************************)
C5_MissingUnlessMismatch ==
    CommentParsed =>
        LET doc == DocumentedNames(last.comment.tags)
        IN \A i \in 1..Len(last.nodeParams) :
             LET name == last.nodeParams[i]
                 missing == CountNamed(last.reports, MissingParamMsg, name)
                 expected == CountNamed(last.reports, ExpectedParamMsg, name)
             IN IF HasTypelessReturn(last.comment.tags)
                THEN missing = 0 /\ expected = 0
                ELSE IF Mismatch(doc, last.nodeParams, i)
                     THEN missing = 0 /\ expected = 1
                     ELSE /\ expected = 0
                          /\ missing = IF InSeq(name, doc) THEN 0 ELSE 1

\* the undocumented parameter a where the documentation has x
C5_Witness ==
    /\ last.outcome = "done"
    /\ last.nodeParams = <<A>>
    /\ DocumentedNames(last.comment.tags) = <<X>>
    /\ CountNamed(last.reports, ExpectedParamMsg, A) = 1
    /\ CountNamed(last.reports, MissingParamMsg, A) = 0

(***************************************************************************)
(* C6 as stated: in an exit check that runs to its end, the second param   *)
(* tag of a name, top-level or dotted, gets a "Duplicate JSDoc parameter"  *)
(* diagnostic, and the registry holds one entry for the name, the first    *)
(* tag.                                                                    *)
(***************************************************************************)
C6_DuplicateForEveryRepeatedName ==
    last.outcome = "done" =>
        \A j \in 1..Len(last.comment.tags) :
            LET t == last.comment.tags[j]
            IN (IsParamTag(t) /\ Cardinality(Earlier(last.comment.tags, j)) = 1) =>
                 /\ CountAt(last.reports, DuplicateParamMsg, LineOf(t)) = 1
                 /\ \E k \in 1..Len(last.params) :
                       /\ last.params[k].key = t.name
                       /\ last.params[k].tag.lineNumber \in Earlier(last.comment.tags, j)

(***************************************************************************)
(* C6 as amended: only top-level names are recorded, so only they can be   *)
(* duplicates.  Of the tags the loop reaches, a param tag with a top-level *)
(* name gets one "Duplicate JSDoc parameter" diagnostic if an earlier      *)
(* param tag has its name and none otherwise, and the registry holds one   *)
(* entry for the name, the first tag of that name; a param tag with a      *)
(* dotted name gets no such diagnostic and no entry.  Tags behind a return *)
(* tag without type are not reached and get none either.                   *)
(***************************************************************************)
C6_DuplicateTopLevelOnly ==
    CommentParsed =>
        LET tags == last.comment.tags
            reached == Len(Reached(tags))
        IN \A j \in 1..Len(tags) :
             LET t == tags[j]
                 dup == CountAt(last.reports, DuplicateParamMsg, LineOf(t))
                 entries == {k \in 1..Len(last.params) : last.params[k].key = t.name}
             IN IsParamTag(t) =>
                  IF j > reached \/ Dotted(t.name)
                  THEN dup = 0 /\ (Dotted(t.name) => entries = {})
                  ELSE /\ dup = IF Earlier(tags, j) = {} THEN 0 ELSE 1
                       /\ Cardinality(entries) = 1
                       /\ \A k \in entries :
                            /\ last.params[k].tag.name = t.name
                            /\ last.params[k].tag.lineNumber \in 1..j
                            /\ Earlier(tags, last.params[k].tag.lineNumber) = {}

\* a, x, a: the third tag is reported, the registry keeps the first
C6_Witness ==
    /\ last.outcome = "done"
    /\ Len(last.comment.tags) = 3
    /\ last.comment.tags[1].name = A /\ last.comment.tags[2].name = X
    /\ last.comment.tags[3].name = A
    /\ CountAt(last.reports, DuplicateParamMsg, LineOf(last.comment.tags[3])) = 1
    /\ ObjectKeys(last.params) = <<A, X>>
    /\ last.params[1].tag.lineNumber = 1

(***************************************************************************)
(* C8: when doctrine rejects the comment, the exit check reports exactly   *)
(* one diagnostic, "JSDoc type missing brace." for a message about braces  *)
(* and "JSDoc syntax error." otherwise, runs none of the tag, @return and  *)
(* parameter checks, has popped the function's record, and leaves the      *)
(* traversal running: the exit check of an enclosing function can follow.  *)
(***************************************************************************)
C8_ParseFailureReportsOnce ==
    last.outcome = "parsefail" =>
        /\ last.reports =
             <<NodeDiag(IF last.comment.message = BracesMessage
                        THEN "JSDoc type missing brace."
                        ELSE "JSDoc syntax error.")>>
        /\ Len(reports) = last.from + 1
        /\ reports[Len(reports)] = last.reports[1]
        /\ last.params = <<>> /\ ~last.hasReturns /\ ~last.hasConstructor
        /\ ~threw
        /\ Len(fns) = Open(events)
        /\ (Open(events) > 0 /\ Len(events) < MaxEvents => ENABLED Exit)

\* the comment of a nested function is rejected for its braces, under
\* requireReturn and with a parameter the comment cannot name
C8_Witness ==
    /\ last.outcome = "parsefail"
    /\ last.comment.message = BracesMessage
    /\ last.nodeParams = <<A>>
    /\ requireReturn
    /\ Open(events) = 1
    /\ Len(reports) = 1

(***************************************************************************)
(* C9: the exit check of a function without comment reports nothing,       *)
(* whatever the configuration, the function's parameters and its           *)
(* returnPresent flag are; the step only removes the function's record     *)
(* from the stack.                                                         *)
(***************************************************************************)
C9_NoCommentOnlyPops ==
    [][(/\ Len(events') = Len(events) + 1
        /\ events'[Len(events')].e = "exit"
        /\ last'.comment.kind = "none")
       => /\ reports' = reports
          /\ last'.reports = <<>>
          /\ threw' = threw
          /\ fns' = SubSeq(fns, 1, Len(fns) - 1)
          /\ config' = config]_vars

\* no comment on a function with a parameter and a value return, under
\* requireReturn
C9_Witness ==
    /\ last.outcome = "nocomment"
    /\ last.nodeParams = <<A>>
    /\ last.functionData.returnPresent
    /\ requireReturn
    /\ reports = <<>>
    /\ fns = <<>>

(***************************************************************************)
(* C10: in the parameter cross-check, a real parameter at a position where *)
(* the documentation has a different name gets exactly one "Expected JSDoc *)
(* for <real> but found <documented>" diagnostic, and a real parameter at  *)
(* a position where the documentation has its name gets no cross-check     *)
(* diagnostic; no other "Expected JSDoc for" diagnostic is reported.       *)
(***************************************************************************)
C10_ExpectedAtMismatchOnly ==
    last.outcome = "done" =>
        LET doc == DocumentedNames(last.comment.tags)
            np == last.nodeParams
        IN /\ \A i \in 1..Len(np) :
                IF Mismatch(doc, np, i)
                THEN Cardinality({k \in 1..Len(last.reports) :
                        /\ last.reports[k].msg = ExpectedParamMsg
                        /\ last.reports[k].name = np[i]
                        /\ last.reports[k].jsdocName = doc[i]}) = 1
                ELSE i <= Len(doc) =>
                        /\ CountNamed(last.reports, ExpectedParamMsg, np[i]) = 0
                        /\ CountNamed(last.reports, MissingParamMsg, np[i]) = 0
           /\ CountMsg(last.reports, ExpectedParamMsg)
                = Cardinality({i \in 1..Len(np) : Mismatch(doc, np, i)})

\* the parameters (a, b, c) documented as (a, x, c): one diagnostic, b and x
C10_Witness ==
    /\ last.outcome = "done"
    /\ last.nodeParams = <<A, B, C>>
    /\ DocumentedNames(last.comment.tags) = <<A, X, C>>
    /\ CountMsg(last.reports, ExpectedParamMsg) = 1
    /\ CountMsg(last.reports, MissingParamMsg) = 0
    /\ \E k \in 1..Len(last.reports) :
          /\ last.reports[k].msg = ExpectedParamMsg
          /\ last.reports[k].name = B
          /\ last.reports[k].jsdocName = X

(***************************************************************************)
(* C11: every tag of a parsed comment whose title is a key of prefer gets  *)
(* exactly one "Use @<preferred> instead." diagnostic, whatever the check  *)
(* of its title reported (on any branch of the return check, and for       *)
(* titles without a check of their own); a tag whose title is no key gets  *)
(* none.                                                                   *)
(***************************************************************************)
C11_UseInsteadForEveryPreferKey ==
    CommentParsed =>
        \A i \in 1..Len(last.comment.tags) :
            LET t == last.comment.tags[i]
                use == {k \in 1..Len(last.reports) :
                          /\ last.reports[k].msg = "Use @{{name}} instead."
                          /\ last.reports[k].line = LineOf(t)}
            IN IF t.title \in DOMAIN prefer
               THEN /\ Cardinality(use) = 1
                    /\ \A k \in use : last.reports[k].title = prefer[t.title]
               ELSE use = {}

(***************************************************************************)
(* C12: a second run over the same events with the same options reports    *)
(* the same diagnostics in the same order; it starts from the empty stack  *)
(* and ends, as the first run did, in the empty stack, and nothing of one  *)
(* exit check is left over for another.                                    *)
(***************************************************************************)
SecondRunOver == firstRun.done /\ (threw \/ Len(events) = Len(firstRun.script))

C12_SecondRunRepeatsFirst ==
    /\ firstRun.done /\ events = <<>> => fns = <<>>
    /\ SecondRunOver =>
          /\ reports = firstRun.reports
          /\ fns = firstRun.fns
          /\ fns = <<>>

(***************************************************************************)
(* C13: in a comment that parses, a param tag without a type gets exactly  *)
(* one "Missing JSDoc parameter type" diagnostic, with the name of the tag *)
(* and at the line of the comment start plus the line offset of the tag;   *)
(* a param tag with a type gets none.                                      *)
(***************************************************************************)
MissingParamTypeMsg == "Missing JSDoc parameter type for \"{{name}}\"."

C13_MissingParamTypeForEveryTypelessParam ==
    CommentParsed =>
        \A i \in 1..Len(last.comment.tags) :
            LET t == last.comment.tags[i]
                at == {k \in 1..Len(last.reports) :
                         /\ last.reports[k].msg = MissingParamTypeMsg
                         /\ last.reports[k].line = LineOf(t)}
            IN IsParamTag(t) =>
                  IF IsNull(t.type)
                  THEN /\ Cardinality(at) = 1
                       /\ \A k \in at : last.reports[k].name = t.name
                  ELSE at = {}

(***************************************************************************)
(* C14: a tag with a simple named type gets "Expected JSDoc type name X    *)
(* but found Y" exactly when the lower-cased written name is one of the    *)
(* nine keys string, boolean, number, int, array, function, date, object,  *)
(* regexp and the written name is not the canonical name of that key; X is *)
(* the canonical name and Y the name as written.  Any other type name      *)
(* gets no such diagnostic.                                                *)
(***************************************************************************)
TypeNameMsg == "Expected JSDoc type name \"{{name}}\" but found \"{{jsdocName}}\"."

NineKeys ==
    {<<"s", "t", "r", "i", "n", "g">>, <<"b", "o", "o", "l", "e", "a", "n">>,
     <<"n", "u", "m", "b", "e", "r">>, <<"i", "n", "t">>,
     <<"a", "r", "r", "a", "y">>, <<"f", "u", "n", "c", "t", "i", "o", "n">>,
     <<"d", "a", "t", "e">>, <<"o", "b", "j", "e", "c", "t">>,
     <<"r", "e", "g", "e", "x", "p">>}

C14_TypeNameIffKeyAndNotCanonical ==
    CommentParsed =>
        \A i \in 1..Len(last.comment.tags) :
            LET t == last.comment.tags[i]
                at == {k \in 1..Len(last.reports) :
                         /\ last.reports[k].msg = TypeNameMsg
                         /\ last.reports[k].line = LineOf(t)}
            IN (~IsNull(t.type) /\ t.type.type = "NameExpression") =>
                  IF /\ ToLowerCase(t.type.name) \in NineKeys
                     /\ t.type.name # MapLookup(ToLowerCase(t.type.name))
                  THEN /\ at # {}
                       /\ \A k \in at :
                             /\ last.reports[k].name = MapLookup(ToLowerCase(t.type.name))
                             /\ last.reports[k].jsdocName = t.type.name
                  ELSE at = {}

(***************************************************************************)
(* C15: a param tag with a dotted name is never put in the registry and    *)
(* takes no position: when the top-level param tags name the real          *)
(* parameters p1..pn in order, with any dotted param tags among them, the  *)
(* cross-check reports neither "Expected JSDoc for" nor "Missing JSDoc for *)
(* parameter".                                                             *)
(***************************************************************************)
TopLevelParamTags(tags) ==
    SelectSeq(tags, LAMBDA t : IsParamTag(t) /\ ~Dotted(t.name))

TopLevelNames(tags) ==
    [k \in 1..Len(TopLevelParamTags(tags)) |-> TopLevelParamTags(tags)[k].name]

HasDottedParam(tags) ==
    \E i \in 1..Len(tags) : IsParamTag(tags[i]) /\ Dotted(tags[i].name)

C15_DottedNamesTakeNoPosition ==
    CommentParsed =>
        /\ \A k \in 1..Len(last.params) : ~Dotted(last.params[k].key)
        /\ TopLevelNames(last.comment.tags) = last.nodeParams =>
              /\ CountMsg(last.reports, ExpectedParamMsg) = 0
              /\ CountMsg(last.reports, MissingParamMsg) = 0

\* a, o.x, b on function f(a, b): the cross-check ran and found nothing
C15_Witness ==
    /\ last.outcome = "done"
    /\ TopLevelNames(last.comment.tags) = <<A, B>>
    /\ last.comment.tags[2].name = OptionsX
    /\ last.nodeParams = <<A, B>>
    /\ ObjectKeys(last.params) = <<A, B>>
    /\ last.reports = <<>>

(***************************************************************************)
(* C16: a return event, with or without argument, delivered while no       *)
(* function is open changes nothing: the stack stays empty, nothing is     *)
(* reported and no handler throws; and a function entered afterwards       *)
(* starts with returnPresent false.                                        *)
(***************************************************************************)
C16_TopLevelReturnIsNoOp ==
    [][/\ (/\ Len(events') = Len(events) + 1
           /\ events'[Len(events')].e = "return"
           /\ fns = <<>>)
          => /\ fns' = <<>>
             /\ reports' = reports
             /\ threw' = threw
             /\ ~threw'
             /\ last' = last
             /\ config' = config
       /\ (/\ Len(events') = Len(events) + 1
           /\ events'[Len(events')].e = "enter")
          => /\ Len(fns') = Len(fns) + 1
             /\ ~fns'[Len(fns')].returnPresent]_vars

\* return 1; at the top level, then a function is entered and left: its
\* record never had the flag
C16_Witness ==
    /\ Len(events) = 3
    /\ events[1] = [e |-> "return", arg |-> TRUE]
    /\ events[2].e = "enter"
    /\ events[3].e = "exit"
    /\ ~last.functionData.returnPresent
    /\ fns = <<>>
    /\ ~threw

(***************************************************************************)
(* C17: the body returns a value directly and the comment documents the    *)
(* return with a type and a description.  Then no diagnostic about the     *)
(* return is reported (unexpected tag, missing type, missing description,  *)
(* missing @return) under either value of requireReturn, and if the        *)
(* comment has no param tag, the real parameters get one "Missing JSDoc    *)
(* for parameter" diagnostic each, in declared order.                      *)
(***************************************************************************)
ReturnMsgs ==
    {"Unexpected @{{title}} tag; function has no return statement.",
     "Missing JSDoc return type.",
     "Missing JSDoc return description.",
     "Missing JSDoc @return for function."}

CompleteReturnTag(t) ==
    IsReturnTag(t) /\ ~IsNull(t.type) /\ t.description # ""

NoParamTag(tags) == \A i \in 1..Len(tags) : ~IsParamTag(tags[i])

MissingParamNames(rs) ==
    LET missing == SelectSeq(rs, LAMBDA r : r.msg = MissingParamMsg)
    IN [k \in 1..Len(missing) |-> missing[k].name]

ReturnDocumentedRight ==
    /\ \A k \in 1..Len(last.reports) : last.reports[k].msg \notin ReturnMsgs
    /\ NoParamTag(last.comment.tags) =>
          MissingParamNames(last.reports) = last.nodeParams

\* as the claim is worded: the comment has some return tag with a type and
\* a description
C17_SomeCompleteReturnTag ==
    (/\ CommentParsed
     /\ last.functionData.returnPresent
     /\ \E i \in 1..Len(last.comment.tags) :
           CompleteReturnTag(last.comment.tags[i]))
    => ReturnDocumentedRight

\* amended: every return tag of the comment has a type and a description
C17_EveryReturnTagComplete ==
    (/\ CommentParsed
     /\ last.functionData.returnPresent
     /\ \E i \in 1..Len(last.comment.tags) : IsReturnTag(last.comment.tags[i])
     /\ \A i \in 1..Len(last.comment.tags) :
           IsReturnTag(last.comment.tags[i])
              => CompleteReturnTag(last.comment.tags[i]))
    => ReturnDocumentedRight

\* @returns {int} d on function f(a, b) { return ...; } with requireReturn
\* off: the parameters are reported missing in order, and (besides the type
\* name int) nothing else
C17_Witness ==
    /\ last.outcome = "done"
    /\ ~requireReturn
    /\ last.functionData.returnPresent
    /\ Len(last.comment.tags) = 1
    /\ CompleteReturnTag(last.comment.tags[1])
    /\ last.nodeParams = <<A, B>>
    /\ MissingParamNames(last.reports) = <<A, B>>
    /\ \A k \in 1..Len(last.reports) : last.reports[k].msg \notin ReturnMsgs

(***************************************************************************)
(* C18: the order of the diagnostics.  Within one exit check the           *)
(* diagnostics about tags come first, in tag order and for one tag in the  *)
(* order check of the title, preference, type name; then the missing       *)
(* @return diagnostic; then the cross-check diagnostics in the order of    *)
(* the declared parameters.  Across functions, an exit check appends its   *)
(* diagnostics behind all that were reported before, so those of a nested  *)
(* function, which is left first, stand before those of the enclosing one; *)
(* no other event reports anything.                                        *)
(***************************************************************************)
TitleCheckMsgs ==
    {MissingParamTypeMsg,
     "Missing JSDoc parameter description for \"{{name}}\".",
     DuplicateParamMsg,
     "Unexpected @{{title}} tag; function has no return statement.",
     "Missing JSDoc return type.",
     "Missing JSDoc return description."}

PositionIn(sq, x) == CHOOSE i \in 1..Len(sq) : sq[i] = x

\* where the claim places a diagnostic of the exit check `check`
Place(check, r) ==
    LET tagNo == r.line[1] - check.comment.line
        behindTags == 4 * (Len(check.comment.tags) + 1)
    IN CASE r.msg \in TitleCheckMsgs -> 4 * tagNo + 1
         [] r.msg = "Use @{{name}} instead." -> 4 * tagNo + 2
         [] r.msg = TypeNameMsg -> 4 * tagNo + 3
         [] r.msg = "Missing JSDoc @return for function." -> behindTags
         [] r.msg \in {ExpectedParamMsg, MissingParamMsg} ->
               behindTags + PositionIn(check.nodeParams, r.name)
         [] OTHER -> 0

InOrder(check) ==
    \A i, j \in 1..Len(check.reports) :
        i < j =>
            /\ Place(check, check.reports[i]) <= Place(check, check.reports[j])
            /\ Place(check, check.reports[i]) >= 4 * (Len(check.comment.tags) + 1)
                  => Place(check, check.reports[i]) < Place(check, check.reports[j])

CrossCheckReports(rs) ==
    {k \in 1..Len(rs) : rs[k].msg \in {ExpectedParamMsg, MissingParamMsg}}

C19_CrossCheckOverRealParameters ==
    CommentParsed =>
        LET doc == DocumentedNames(last.comment.tags)
            cross == CrossCheckReports(last.reports)
        IN /\ Cardinality(cross) <= Len(last.nodeParams)
           /\ \A k \in cross : InSeq(last.reports[k].name, last.nodeParams)
           /\ \A p \in (Len(last.nodeParams) + 1)..Len(doc) :
                 \A k \in cross :
                    last.reports[k].msg = ExpectedParamMsg
                       => last.reports[k].jsdocName # doc[p]

\* a, b, c documented on function f(a): b and c go unreported
C19_Witness ==
    /\ last.outcome = "done"
    /\ ObjectKeys(last.params) = <<A, B, C>>
    /\ last.nodeParams = <<A>>
    /\ CrossCheckReports(last.reports) = {}

====
